---- MODULE Spec2Model ----
(***************************************************************************)
(* Model of src/data_analyzer.py: the DataAnalyzer class (loading a        *)
(* delimited file into rows, numeric parsing, column statistics, filter,   *)
(* group_by) and create_histogram.                                         *)
(*                                                                         *)
(* Representation.                                                         *)
(*  - A Python str is a sequence of one-character strings (<<"1", ".",     *)
(*    "0">> is "1.0"), so that strip, replace, lower, substring search and *)
(*    float parsing are computed character by character.                   *)
(*  - Python's None is the value None below; it differs from every str.    *)
(*  - A float is a pair <<n, d>>: the rational n/d in lowest terms with    *)
(*    d > 0, or <<1, 0>> (inf), <<-1, 0>> (-inf), <<0, 0>> (nan).  The     *)
(*    cells of the modelled files have values whose arithmetic is exact    *)
(*    in this representation; rounding of binary floats is not modelled.   *)
(*  - A row (a dict) is a function from its keys to its values.            *)
(*  - A call that raises leaves the exception's name in `raised`; a call   *)
(*    that returns leaves "" there and the value in `ret`.                 *)
(***************************************************************************)
EXTENDS Integers, Sequences, FiniteSets, TLC

VARIABLES
    file,       \* the records csv.reader yields for the file, header first
    bytes,      \* what reading the file's bytes does, for each codec
    loader,     \* position of _load_data: its state and the attempt it is at
    encoding,   \* DataAnalyzer.encoding
    columns,    \* DataAnalyzer.columns
    data,       \* DataAnalyzer.data
    written,    \* the text of the file to_csv has written, or of the file
                \* the loader is about to read; None if there is none
    call,       \* the call whose outcome the caller holds: name, arguments
    raised,     \* name of the exception the last call raised, "" if none
    ret         \* value the last call returned (None when it raised)

\* the analyzer and the file it was built from
dataset == <<file, bytes, loader, encoding, columns, data>>

vars == <<dataset, written, call, raised, ret>>

----------------------------------------------------------------------------
(* Bounds of the model.                                                    *)

MaxRows == 2        \* records after the header, files with ragged records
MaxTallRows == 5    \* records after the header, files for the 0.8 ratio
MaxValues == 3      \* length of the value list given to create_histogram
MaxBins == 2        \* largest bin count given to create_histogram

----------------------------------------------------------------------------
(* Python values.                                                          *)

None == <<"None">>

\* The caller is single-threaded and synchronous: it makes one call, takes
\* its outcome, and is then ready for the next call.
NoCall == [op |-> "none", args |-> <<>>]
Idle == call = NoCall

Max(a, b) == IF a >= b THEN a ELSE b
Min(a, b) == IF a <= b THEN a ELSE b
Abs(a) == IF a < 0 THEN -a ELSE a

RECURSIVE GCD(_, _)
GCD(a, b) == IF b = 0 THEN a ELSE GCD(b, a % b)

\* bool(value) for None, str and list values
Truthy(value) == value # None /\ value # <<>>

----------------------------------------------------------------------------
(* str methods.                                                            *)

Whitespace == {" "}

RECURSIVE LStrip(_)
LStrip(s) ==
    IF s # <<>> /\ Head(s) \in Whitespace THEN LStrip(Tail(s)) ELSE s

RECURSIVE RStrip(_)
RStrip(s) ==
    IF s # <<>> /\ s[Len(s)] \in Whitespace
    THEN RStrip(SubSeq(s, 1, Len(s) - 1))
    ELSE s

\* str.strip()
Strip(s) == RStrip(LStrip(s))

\* value.replace(",", "")
RemoveCommas(s) == SelectSeq(s, LAMBDA c : c # ",")

LowerChar(c) ==
    CASE c = "A" -> "a"
      [] c = "F" -> "f"
      [] c = "I" -> "i"
      [] c = "N" -> "n"
      [] OTHER -> c

\* str.lower()
Lower(s) == [i \in 1..Len(s) |-> LowerChar(s[i])]

\* needle in hay
Contains(needle, hay) ==
    \E i \in 0..(Len(hay) - Len(needle)) :
        SubSeq(hay, i + 1, i + Len(needle)) = needle

----------------------------------------------------------------------------
(* Floats.                                                                 *)

Fin(n, d) ==
    LET g == GCD(Abs(n), d) IN <<n \div g, d \div g>>

PosInf == <<1, 0>>
NegInf == <<-1, 0>>
NaN == <<0, 0>>
Zero == <<0, 1>>

IsNaN(a) == a[1] = 0 /\ a[2] = 0
IsInf(a) == a[1] # 0 /\ a[2] = 0
IsFinite(a) == a[2] > 0

NumNeg(a) == <<-a[1], a[2]>>

NumAdd(a, b) ==
    IF IsNaN(a) \/ IsNaN(b) THEN NaN
    ELSE IF IsInf(a) /\ IsInf(b) THEN (IF a = b THEN a ELSE NaN)
    ELSE IF IsInf(a) THEN a
    ELSE IF IsInf(b) THEN b
    ELSE Fin(a[1] * b[2] + b[1] * a[2], a[2] * b[2])

NumSub(a, b) == NumAdd(a, NumNeg(b))

Sign(n) == IF n > 0 THEN 1 ELSE IF n < 0 THEN -1 ELSE 0

NumMul(a, b) ==
    IF IsNaN(a) \/ IsNaN(b) THEN NaN
    ELSE IF IsInf(a) \/ IsInf(b)
         THEN (IF a[1] = 0 \/ b[1] = 0 THEN NaN
               ELSE <<Sign(a[1]) * Sign(b[1]), 0>>)
    ELSE Fin(a[1] * b[1], a[2] * b[2])

\* a / n for an int n > 0
NumDivInt(a, n) == NumMul(a, <<1, n>>)

\* a < b; every comparison with nan is false
NumLt(a, b) ==
    /\ ~IsNaN(a)
    /\ ~IsNaN(b)
    /\ IF IsInf(a) /\ IsInf(b) THEN a[1] < b[1]
       ELSE a[1] * b[2] < b[1] * a[2]

\* a == b; nan equals nothing
NumEq(a, b) == ~IsNaN(a) /\ ~IsNaN(b) /\ a = b

NumLe(a, b) == NumLt(a, b) \/ NumEq(a, b)

\* the integer part of the square root of n >= 0
RECURSIVE IntSqrt(_)
IntSqrt(n) ==
    IF n < 2 THEN n
    ELSE LET r == 2 * IntSqrt(n \div 4)
         IN  IF (r + 1) * (r + 1) <= n THEN r + 1 ELSE r

IsSquare(n) == IntSqrt(n) * IntSqrt(n) = n

\* math.sqrt(a) for a >= 0: the exact root when it is rational, else the
\* surd <<n, d, "sqrt">> standing for the square root of n/d
Sqrt(a) ==
    IF ~IsFinite(a) THEN a
    ELSE IF IsSquare(a[1]) /\ IsSquare(a[2])
         THEN <<IntSqrt(a[1]), IntSqrt(a[2])>>
    ELSE <<a[1], a[2], "sqrt">>

Digits == {"0", "1", "2", "3", "4", "5", "6", "7", "8", "9"}

DigitVal(c) ==
    CASE c = "0" -> 0 [] c = "1" -> 1 [] c = "2" -> 2 [] c = "3" -> 3
      [] c = "4" -> 4 [] c = "5" -> 5 [] c = "6" -> 6 [] c = "7" -> 7
      [] c = "8" -> 8 [] c = "9" -> 9

RECURSIVE IntVal(_)
IntVal(ds) ==
    IF ds = <<>> THEN 0
    ELSE 10 * IntVal(SubSeq(ds, 1, Len(ds) - 1)) + DigitVal(ds[Len(ds)])

RECURSIVE Pow10(_)
Pow10(k) == IF k = 0 THEN 1 ELSE 10 * Pow10(k - 1)

AllDigits(s) == \A i \in 1..Len(s) : s[i] \in Digits

\* the text after an optional sign
Unsigned(s) ==
    IF s # <<>> /\ Head(s) \in {"+", "-"} THEN Tail(s) ELSE s

SignOf(s) == IF s # <<>> /\ Head(s) = "-" THEN -1 ELSE 1

\* digits [. digits] with at least one digit
IsDecimal(u) ==
    LET dots == {i \in 1..Len(u) : u[i] = "."} IN
    /\ Cardinality(dots) <= 1
    /\ AllDigits(SelectSeq(u, LAMBDA c : c # "."))
    /\ SelectSeq(u, LAMBDA c : c # ".") # <<>>

DecimalVal(u) ==
    LET dots == {i \in 1..Len(u) : u[i] = "."}
        frac == IF dots = {} THEN 0 ELSE Len(u) - (CHOOSE i \in dots : TRUE)
    IN  Fin(IntVal(SelectSeq(u, LAMBDA c : c # ".")), Pow10(frac))

InfWords == {<<"i", "n", "f">>,
             <<"i", "n", "f", "i", "n", "i", "t", "y">>}
NanWords == {<<"n", "a", "n">>}

\* float(s) returns a value (otherwise it raises ValueError).  The grammar
\* is Python's: surrounding whitespace, an optional sign, then inf,
\* infinity or nan in any letter case, or a decimal number.  Exponents and
\* digit-group underscores use characters outside the modelled alphabet.
FloatParses(s) ==
    LET u == Unsigned(Strip(s)) IN
    \/ Lower(u) \in InfWords
    \/ Lower(u) \in NanWords
    \/ IsDecimal(u)

\* float(s), for FloatParses(s)
FloatValue(s) ==
    LET t == Strip(s)
        u == Unsigned(t)
    IN  IF Lower(u) \in InfWords THEN <<SignOf(t), 0>>
        ELSE IF Lower(u) \in NanWords THEN NaN
        ELSE LET v == DecimalVal(u) IN <<SignOf(t) * v[1], v[2]>>

----------------------------------------------------------------------------
(* DataAnalyzer._is_numeric, DataAnalyzer._to_numeric.                     *)

\* variant: a cell of white space is not blank
IsBlankEmptyOnly(value) == ~Truthy(value)

\* not value or value.strip() == ""
IsBlank(value) == ~Truthy(value) \/ Strip(value) = <<>>

IsNumeric(value) ==
    IF IsBlank(value) THEN FALSE
    ELSE FloatParses(RemoveCommas(value))

ToNumeric(value) ==
    IF IsBlank(value) THEN None
    ELSE IF FloatParses(RemoveCommas(value))
         THEN FloatValue(RemoveCommas(value))
    ELSE None

----------------------------------------------------------------------------
(* Loading: csv.DictReader over the records of the file.                   *)

\* dict.get(key, default)
Get(row, key, default) == IF key \in DOMAIN row THEN row[key] ELSE default

\* The dict csv.DictReader builds for one record: dict(zip(fieldnames,
\* record)), the cells beyond the field names stored as a list under the
\* key None (restkey), the field names beyond the record set to None
\* (restval) after the zip, so also a name that the zip has set already.
DictRow(fieldnames, record) ==
    LET lf == Len(fieldnames)
        lr == Len(record)
        zipped == [k \in {fieldnames[i] : i \in 1..Min(lf, lr)} |->
                     record[CHOOSE i \in 1..Min(lf, lr) :
                              /\ fieldnames[i] = k
                              /\ \A j \in (i + 1)..Min(lf, lr) :
                                    fieldnames[j] # k]]
    IN  IF lf < lr
        THEN zipped @@ (None :> SubSeq(record, lf + 1, lr))
        ELSE [k \in {fieldnames[i] : i \in (lr + 1)..lf} |-> None] @@ zipped

\* list(reader): one dict per record after the header, blank records
\* skipped
RECURSIVE ReadRows(_, _)
ReadRows(fieldnames, records) ==
    IF records = <<>> THEN <<>>
    ELSE IF Head(records) = <<>> THEN ReadRows(fieldnames, Tail(records))
    ELSE <<DictRow(fieldnames, Head(records))>>
             \o ReadRows(fieldnames, Tail(records))

\* reader.fieldnames or []
LoadColumns(f) == IF f = <<>> THEN <<>> ELSE Head(f)

\* list(reader)
LoadData(f) == IF f = <<>> THEN <<>> ELSE ReadRows(Head(f), Tail(f))

----------------------------------------------------------------------------
(* The files of the model.                                                 *)

ColA == <<"a">>
ColB == <<"b">>
ColZ == <<"z">>     \* a name that is no column of any modelled file
Header == <<ColA, ColB>>

ACells == {<<"x">>}
BCells == {<<>>, <<" ">>, <<"1">>, <<"1", ".", "0">>, <<"2">>, <<"a">>,
           <<"i", "n", "f">>, <<"1", ",", "0", "0", "0">>}
ExtraCells == {<<"9">>}

\* records: blank, short (no cell for column b), full, long (a third cell)
Records ==
    {<<>>}
    \cup {<<x>> : x \in ACells}
    \cup {<<x, y>> : x \in ACells, y \in BCells}
    \cup {<<x, <<"1">>, e>> : x \in ACells, e \in ExtraCells}

TallCells == {<<"1">>, <<"x">>}
TallRecords == {<<x>> : x \in ACells}
               \cup {<<x, y>> : x \in ACells, y \in TallCells}

SeqsUpTo(S, n) == UNION {[1..k -> S] : k \in 0..n}

Files ==
    {<<>>}
    \cup {<<Header>> \o rs : rs \in SeqsUpTo(Records, MaxRows)}
    \cup {<<Header>> \o rs : rs \in SeqsUpTo(TallRecords, MaxTallRows)}

\* files with two columns of numbers, for correlation
MaxPairRows == 3    \* records after the header, files with two number columns

PairACells == {<<"1">>, <<"2">>, <<"a">>, <<"i", "n", "f">>}
PairBCells == {<<"1">>, <<"2">>, <<"n", "a", "n">>}
PairRecords == {<<<<"1">>>>} \cup {<<x, y>> : x \in PairACells, y \in PairBCells}
PairFiles == {<<Header>> \o rs : rs \in SeqsUpTo(PairRecords, MaxPairRows)}

\* files with a cell that spells not-a-number, for the relational filters
NanCells == {<<"1">>, <<"2">>, <<"n", "a", "n">>, <<"a">>}
NanRecords == {<<x>> : x \in ACells}
              \cup {<<x, y>> : x \in ACells, y \in NanCells}
NanFiles == {<<Header>> \o rs : rs \in SeqsUpTo(NanRecords, MaxRows)}

\* files with cells that hold a comma or semicolons, for to_csv
ExportCells == {<<>>, <<"1">>, <<"1", ",", "0", "0", "0">>,
                <<"p", ";", "q", ";", "r">>}
ExportRecords ==
    {<<x>> : x \in ACells}
    \cup {<<x, y>> : x \in ACells, y \in ExportCells}
    \cup {<<x, <<"1">>, e>> : x \in ACells, e \in ExportCells}
ExportFiles ==
    {<<>>} \cup {<<Header>> \o rs : rs \in SeqsUpTo(ExportRecords, MaxRows)}

\* files with a column of texts, more than TopN of them distinct: four
\* rows of four texts, or none, then rows of texts, a blank cell, a number
\* or no cell
MaxTopRows == 3     \* records after the four first, files for top_values

TopFirstRecords ==
    <<<<<<"x">>, <<"s">>>>, <<<<"x">>, <<"t">>>>, <<<<"x">>, <<"u">>>>,
      <<<<"x">>, <<"v">>>>>>
TopCells == {<<"p">>, <<"q">>, <<>>, <<"1">>}
TopRecords == {<<x>> : x \in ACells}
              \cup {<<x, y>> : x \in ACells, y \in TopCells}
TopFiles ==
    {<<Header>> \o first \o rs :
        first \in {<<>>, TopFirstRecords},
        rs \in SeqsUpTo(TopRecords, MaxTopRows)}

----------------------------------------------------------------------------
(* DataAnalyzer._load_data: the encodings tried in turn.                   *)

FallbackEncodings == <<"utf-8", "cp949", "euc-kr", "latin-1">>

\* encodings_to_try
EncodingsToTry(preferred) == <<preferred>> \o FallbackEncodings

\* the codec names open() knows; any other name makes it raise LookupError
KnownCodecs == {"ascii", "utf-8", "cp949", "euc-kr", "latin-1"}

\* the values of the parameter encoding
PreferredEncodings == KnownCodecs \cup {"bogus"}

\* What reading the file under a codec does: "sample" is a decoding error
\* raised by f.read(4096), "late" one raised past the sample, by
\* list(reader), "ok" no error.
Outcomes == {"sample", "late", "ok"}

\* the later the first undecodable byte, the higher
OutcomeRank(o) == CASE o = "sample" -> 0 [] o = "late" -> 1 [] o = "ok" -> 2

\* Latin-1 decodes every byte; the bytes ASCII decodes are decoded by every
\* codec, those euc-kr decodes by cp949.
OutcomeMaps ==
    {o \in [KnownCodecs -> Outcomes] :
        /\ o["latin-1"] = "ok"
        /\ \A c \in KnownCodecs : OutcomeRank(o["ascii"]) <= OutcomeRank(o[c])
        /\ OutcomeRank(o["euc-kr"]) <= OutcomeRank(o["cp949"])}

\* the text a codec makes of the bytes of a name that is not ASCII
Glyph(codec) ==
    CASE codec = "utf-8" -> <<"u">>
      [] codec \in {"cp949", "euc-kr"} -> <<"k">>
      [] codec = "latin-1" -> <<"l">>
      [] codec = "ascii" -> <<"?">>

\* The records read under a codec.  A file of ASCII text alone reads the
\* same under every codec; the other files of the model have a header of
\* one name and one record, both a name that is not ASCII.
DecodedRecords(codec) ==
    IF bytes["ascii"] = "ok" THEN file
    ELSE <<<<Glyph(codec)>>, <<Glyph(codec)>>>>

\* the bytes of a file of ASCII text
AsciiBytes == [c \in KnownCodecs |-> "ok"]

\* _load_data at the start of its loop
Loading(preferred) ==
    [pc |-> "loading", attempt |-> 1,
     encodings_to_try |-> EncodingsToTry(preferred), raised |-> ""]

\* One pass of the loop over encodings_to_try.  open() raises LookupError
\* for an unknown codec name, which the except clause does not catch.  A
\* decoding error is caught and the next encoding tried; when it is raised
\* by list(reader), self.columns has been assigned from the header already.
\* After the last encoding the ValueError is raised.
LoadAttempt ==
    /\ loader.pc = "loading"
    /\ LET enc == loader.encodings_to_try[loader.attempt]
           last == loader.attempt = Len(loader.encodings_to_try)
           next_loader == IF last
                          THEN [loader EXCEPT !.pc = "failed",
                                              !.raised = "ValueError"]
                          ELSE [loader EXCEPT !.attempt = @ + 1]
       IN  IF enc \notin KnownCodecs
           THEN /\ loader' = [loader EXCEPT !.pc = "failed",
                                            !.raised = "LookupError"]
                /\ UNCHANGED <<file, encoding, columns, data>>
           ELSE IF bytes[enc] = "sample"
           THEN /\ loader' = next_loader
                /\ UNCHANGED <<file, encoding, columns, data>>
           ELSE IF bytes[enc] = "late"
           THEN /\ loader' = next_loader
                /\ columns' = LoadColumns(DecodedRecords(enc))
                /\ UNCHANGED <<file, encoding, data>>
           ELSE /\ loader' = [loader EXCEPT !.pc = "ready"]
                /\ file' = DecodedRecords(enc)
                /\ columns' = LoadColumns(DecodedRecords(enc))
                /\ data' = LoadData(DecodedRecords(enc))
                /\ encoding' = enc
    /\ UNCHANGED <<bytes, written, call, raised, ret>>

----------------------------------------------------------------------------
(* Built-ins over lists of floats.                                         *)

RECURSIVE Sum(_)
Sum(values) ==
    IF values = <<>> THEN Zero
    ELSE NumAdd(Sum(SubSeq(values, 1, Len(values) - 1)), values[Len(values)])

\* min(values): the first element no later element is less than
RECURSIVE PyMin(_)
PyMin(values) ==
    IF Len(values) = 1 THEN values[1]
    ELSE LET m == PyMin(SubSeq(values, 1, Len(values) - 1))
             x == values[Len(values)]
         IN  IF NumLt(x, m) THEN x ELSE m

RECURSIVE PyMax(_)
PyMax(values) ==
    IF Len(values) = 1 THEN values[1]
    ELSE LET m == PyMax(SubSeq(values, 1, Len(values) - 1))
             x == values[Len(values)]
         IN  IF NumLt(m, x) THEN x ELSE m

\* x inserted into the sorted list after the elements not greater than it
RECURSIVE Insert(_, _)
Insert(sorted, x) ==
    IF sorted = <<>> THEN <<x>>
    ELSE IF NumLt(x, sorted[Len(sorted)])
         THEN Insert(SubSeq(sorted, 1, Len(sorted) - 1), x)
                  \o <<sorted[Len(sorted)]>>
    ELSE sorted \o <<x>>

\* sorted(values): stable, ascending
RECURSIVE Sorted(_)
Sorted(values) ==
    IF values = <<>> THEN <<>>
    ELSE Insert(Sorted(SubSeq(values, 1, Len(values) - 1)),
                values[Len(values)])

\* [f(x) for x in values if keep(x)] helpers
Range(seq) == {seq[i] : i \in 1..Len(seq)}

CountOf(seq, x) == Cardinality({i \in 1..Len(seq) : seq[i] = x})

\* the distinct elements of seq in the order of their first occurrence
FirstSeen(seq) ==
    LET firsts == {i \in 1..Len(seq) : \A j \in 1..(i - 1) : seq[j] # seq[i]}
        Rank(i) == Cardinality({j \in firsts : j <= i})
    IN  [k \in 1..Cardinality(firsts) |->
            seq[CHOOSE i \in firsts : Rank(i) = k]]

\* pair inserted after the pairs whose count is not smaller
RECURSIVE InsertByCount(_, _)
InsertByCount(sorted, p) ==
    IF sorted = <<>> THEN <<p>>
    ELSE IF sorted[Len(sorted)][2] < p[2]
         THEN InsertByCount(SubSeq(sorted, 1, Len(sorted) - 1), p)
                  \o <<sorted[Len(sorted)]>>
    ELSE sorted \o <<p>>

RECURSIVE SortByCount(_)
SortByCount(pairs) ==
    IF pairs = <<>> THEN <<>>
    ELSE InsertByCount(SortByCount(SubSeq(pairs, 1, Len(pairs) - 1)),
                       pairs[Len(pairs)])

\* Counter(items).most_common(): <<value, count>> pairs by descending
\* count, equal counts in order of first occurrence
MostCommon(items) ==
    LET keys == FirstSeen(items)
    IN  SortByCount([k \in 1..Len(keys) |-> <<keys[k], CountOf(items, keys[k])>>])

\* variant: the first n distinct items, not ordered by count
MostCommonNUnordered(items, n) ==
    LET all == FirstSeen(items)
    IN  [k \in 1..Min(n, Len(all)) |-> <<all[k], CountOf(items, all[k])>>]

\* Counter(items).most_common(n)
MostCommonN(items, n) ==
    LET all == MostCommon(items) IN SubSeq(all, 1, Min(n, Len(all)))

----------------------------------------------------------------------------
(* DataAnalyzer._calculate_stats.                                          *)

Mean(values) == NumDivInt(Sum(values), Len(values))

\* variant: the upper of the two middle elements for an even length
MedianUpperMiddle(values) ==
    LET n == Len(values)
        sorted_vals == Sorted(values)
        mid == n \div 2
    IN  sorted_vals[mid + 1]

Median(values) ==
    LET n == Len(values)
        sorted_vals == Sorted(values)
        mid == n \div 2
    IN  IF n % 2 = 0
        THEN NumDivInt(NumAdd(sorted_vals[mid], sorted_vals[mid + 1]), 2)
        ELSE sorted_vals[mid + 1]

\* variant: the sum of squares divided by n
VarianceOverN(values) ==
    LET mean == Mean(values)
        sq == [i \in 1..Len(values) |->
                 NumMul(NumSub(values[i], mean), NumSub(values[i], mean))]
    IN  NumDivInt(Sum(sq), Len(values))

Variance(values) ==
    LET mean == Mean(values)
        sq == [i \in 1..Len(values) |->
                 NumMul(NumSub(values[i], mean), NumSub(values[i], mean))]
    IN  NumDivInt(Sum(sq), Len(values) - 1)

\* variant: the standard deviation of a single value left undefined
StdDevUndefinedForOne(values) ==
    IF Len(values) > 1 THEN Sqrt(Variance(values)) ELSE NaN

StdDev(values) ==
    IF Len(values) > 1 THEN Sqrt(Variance(values)) ELSE Zero

\* variant: no standard deviation in the dict for a single value
CalculateStatsNoStdDevForOne(values) ==
    IF values = <<>> THEN <<>>
    ELSE [min |-> PyMin(values),
          max |-> PyMax(values),
          mean |-> Mean(values),
          median |-> Median(values),
          std_dev |-> IF Len(values) > 1 THEN StdDev(values) ELSE None,
          sum |-> Sum(values)]

\* the dict returned for a non-empty list; <<>> stands for {}
CalculateStats(values) ==
    IF values = <<>> THEN <<>>
    ELSE [min |-> PyMin(values),
          max |-> PyMax(values),
          mean |-> Mean(values),
          median |-> Median(values),
          std_dev |-> StdDev(values),
          sum |-> Sum(values)]

----------------------------------------------------------------------------
(* DataAnalyzer.get_column_stats.                                          *)

TopN == 5

\* [row.get(column, "") for row in self.data]
ColumnValues(column) == [i \in 1..Len(data) |-> Get(data[i], column, <<>>)]

\* the _to_numeric results that are not None
NumericValues(values) ==
    LET nums == [i \in 1..Len(values) |-> ToNumeric(values[i])]
    IN  SelectSeq(nums, LAMBDA v : v # None)

\* variant: a ratio of exactly 0.8 accepted as numeric
RatioAtLeastThreshold(numeric, total) ==
    IF total = 0 THEN FALSE ELSE 5 * numeric >= 4 * total

\* numeric_ratio > 0.8, with numeric_ratio = numeric / total (0 if total
\* is 0): for the row counts of the model the quotient of the two ints and
\* the constant 0.8 compare as the exact fractions do
RatioAboveThreshold(numeric, total) ==
    IF total = 0 THEN FALSE ELSE 5 * numeric > 4 * total

ColumnStatsOf(column) ==
    LET values == ColumnValues(column)
        missing == Cardinality({i \in 1..Len(values) : IsBlank(values[i])})
        nonblank == SelectSeq(values, LAMBDA v : ~IsBlank(v))
        unique == Cardinality(Range(nonblank))
        numeric_values == NumericValues(values)
        dtype == IF RatioAboveThreshold(Len(numeric_values), Len(values))
                 THEN "numeric" ELSE "string"
        calc_stats == CalculateStats(numeric_values)
        numeric == dtype = "numeric" /\ numeric_values # <<>>
    IN  [name |-> column,
         dtype |-> dtype,
         count |-> Len(values),
         missing |-> missing,
         unique |-> unique,
         min_val |-> IF numeric THEN calc_stats.min ELSE None,
         max_val |-> IF numeric THEN calc_stats.max ELSE None,
         mean |-> IF numeric THEN calc_stats.mean ELSE None,
         median |-> IF numeric THEN calc_stats.median ELSE None,
         std_dev |-> IF numeric THEN calc_stats.std_dev ELSE None,
         sum_val |-> IF numeric THEN calc_stats.sum ELSE None,
         top_values |-> IF numeric THEN <<>>
                        ELSE MostCommonN(nonblank, TopN)]

CallColumns == {ColA, ColB, ColZ}

GetColumnStats(column) ==
    /\ Idle
    /\ call' = [op |-> "get_column_stats", args |-> <<column>>]
    /\ IF column \notin Range(columns)
       THEN /\ raised' = "ValueError"
            /\ ret' = None
       ELSE /\ raised' = ""
            /\ ret' = ColumnStatsOf(column)
    /\ UNCHANGED <<dataset, written>>

----------------------------------------------------------------------------
(* DataAnalyzer.filter.                                                    *)

Conditions == {"eq", "ne", "gt", "lt", "ge", "le", "contains"}
CallConditions == Conditions \cup {"between"}

\* the literals given to filter: str values, as the command line gives
Literals == {<<>>, <<"1">>, <<"a">>, <<"1", ",", "0", "0", "0">>}

\* numeric_cell <op> float(value), for a cell that is a number: float()
\* raises ValueError on a literal it cannot parse
Compare(condition, numeric_cell, value) ==
    IF ~FloatParses(value) THEN "ValueError"
    ELSE LET v == FloatValue(value)
             holds == CASE condition = "eq" -> NumEq(numeric_cell, v)
                        [] condition = "gt" -> NumLt(v, numeric_cell)
                        [] condition = "lt" -> NumLt(numeric_cell, v)
                        [] condition = "ge" -> NumLe(v, numeric_cell)
                        [] condition = "le" -> NumLe(numeric_cell, v)
         IN  IF holds THEN "match" ELSE "nomatch"

\* One pass of the loop body for a row: "match", "nomatch", or the name of
\* the exception the body raises.  str(value) of a str is the str.
RowOutcome(row, column, condition, value) ==
    LET cell_value == Get(row, column, <<>>)
        numeric_cell == ToNumeric(cell_value)
    IN  IF condition = "eq"
        THEN IF cell_value = value THEN "match"
             ELSE IF numeric_cell # None
                  THEN Compare("eq", numeric_cell, value)
             ELSE "nomatch"
        ELSE IF condition = "ne"
        THEN IF cell_value # value THEN "match" ELSE "nomatch"
        ELSE IF condition \in {"gt", "lt", "ge", "le"} /\ numeric_cell # None
        THEN Compare(condition, numeric_cell, value)
        ELSE IF condition = "contains"
        THEN IF cell_value = None THEN "AttributeError"
             ELSE IF Contains(Lower(value), Lower(cell_value)) THEN "match"
             ELSE "nomatch"
        ELSE "nomatch"

RECURSIVE MatchedRows(_, _)
MatchedRows(rows, outcomes) ==
    IF rows = <<>> THEN <<>>
    ELSE (IF Head(outcomes) = "match" THEN <<Head(rows)>> ELSE <<>>)
             \o MatchedRows(Tail(rows), Tail(outcomes))

\* variant: the matching rows returned newest first
FilterRowsNewestFirst(rows, column, condition, value) ==
    LET outcomes == [i \in 1..Len(rows) |->
                       RowOutcome(rows[i], column, condition, value)]
        failing == {i \in 1..Len(rows) :
                      outcomes[i] \notin {"match", "nomatch"}}
        matched == MatchedRows(rows, outcomes)
    IN  IF failing # {}
        THEN [raised |-> outcomes[CHOOSE i \in failing :
                                    \A j \in failing : i <= j],
              ret |-> None]
        ELSE [raised |-> "",
              ret |-> [i \in 1..Len(matched) |->
                          matched[Len(matched) + 1 - i]]]

\* the loop over the rows: the first row whose body raises ends the call
FilterRows(rows, column, condition, value) ==
    LET outcomes == [i \in 1..Len(rows) |->
                       RowOutcome(rows[i], column, condition, value)]
        failing == {i \in 1..Len(rows) :
                      outcomes[i] \notin {"match", "nomatch"}}
    IN  IF failing # {}
        THEN [raised |-> outcomes[CHOOSE i \in failing :
                                    \A j \in failing : i <= j],
              ret |-> None]
        ELSE [raised |-> "", ret |-> MatchedRows(rows, outcomes)]

\* variant: the rows scanned without the check of the column name
FilterOfUnchecked(column, condition, value) ==
    FilterRows(data, column, condition, value)

FilterOf(column, condition, value) ==
    IF column \notin Range(columns)
    THEN [raised |-> "ValueError", ret |-> None]
    ELSE FilterRows(data, column, condition, value)

Filter(column, condition, value) ==
    /\ Idle
    /\ call' = [op |-> "filter", args |-> <<column, condition, value>>]
    /\ raised' = FilterOf(column, condition, value).raised
    /\ ret' = FilterOf(column, condition, value).ret
    /\ UNCHANGED <<dataset, written>>

----------------------------------------------------------------------------
(* DataAnalyzer.group_by.                                                  *)

\* the default of row.get(column, ...): the text "(empty)" in Korean
EmptyKey == <<"(", "e", "m", "p", "t", "y", ")">>

GroupKeyOf(row, column) == Get(row, column, EmptyKey)

\* variant: the rows that have no cell for the column left out
GroupRowsWithCell(column, key) ==
    SelectSeq(data, LAMBDA row :
        GroupKeyOf(row, column) = key /\ GroupKeyOf(row, column) # None)

\* the rows of a group, in source order
GroupRows(column, key) ==
    SelectSeq(data, LAMBDA row : GroupKeyOf(row, column) = key)

\* variant: the mean taken over all rows of the group
AggregateOfMeanOverRows(rows, agg_column) ==
    LET cells == [i \in 1..Len(rows) |-> Get(rows[i], agg_column, <<>>)]
        values == NumericValues(cells)
    IN  IF values # <<>>
        THEN [count |-> Len(rows),
              sum |-> Sum(values),
              mean |-> NumDivInt(Sum(values), Len(rows)),
              min |-> PyMin(values),
              max |-> PyMax(values)]
        ELSE [count |-> Len(rows)]

AggregateOf(rows, agg_column) ==
    LET cells == [i \in 1..Len(rows) |-> Get(rows[i], agg_column, <<>>)]
        values == NumericValues(cells)
    IN  IF values # <<>>
        THEN [count |-> Len(rows),
              sum |-> Sum(values),
              mean |-> NumDivInt(Sum(values), Len(values)),
              min |-> PyMin(values),
              max |-> PyMax(values)]
        ELSE [count |-> Len(rows)]

\* the returned dict as its <<key, value>> items in insertion order
GroupByOf(column, agg_column) ==
    LET keys == FirstSeen([i \in 1..Len(data) |-> GroupKeyOf(data[i], column)])
    IN  IF Truthy(agg_column) /\ agg_column \in Range(columns)
        THEN [k \in 1..Len(keys) |->
                <<keys[k], AggregateOf(GroupRows(column, keys[k]), agg_column)>>]
        ELSE [k \in 1..Len(keys) |->
                <<keys[k], Len(GroupRows(column, keys[k]))>>]

AggColumns == {None, ColB, ColZ}

\* variant: a column to aggregate that does not exist is an error
GroupByUnknownAggFails(column, agg_column) ==
    /\ Idle
    /\ call' = [op |-> "group_by", args |-> <<column, agg_column>>]
    /\ IF \/ column \notin Range(columns)
          \/ (Truthy(agg_column) /\ agg_column \notin Range(columns))
       THEN /\ raised' = "ValueError"
            /\ ret' = None
       ELSE /\ raised' = ""
            /\ ret' = GroupByOf(column, agg_column)
    /\ UNCHANGED <<dataset, written>>

GroupBy(column, agg_column) ==
    /\ Idle
    /\ call' = [op |-> "group_by", args |-> <<column, agg_column>>]
    /\ IF column \notin Range(columns)
       THEN /\ raised' = "ValueError"
            /\ ret' = None
       ELSE /\ raised' = ""
            /\ ret' = GroupByOf(column, agg_column)
    /\ UNCHANGED <<dataset, written>>

----------------------------------------------------------------------------
(* DataAnalyzer.correlation.                                               *)

\* a / b for a divisor b that is positive, infinite or nan
NumQuot(a, b) ==
    IF IsNaN(a) \/ IsNaN(b) THEN NaN
    ELSE IF IsInf(b) THEN (IF IsInf(a) THEN NaN ELSE Zero)
    ELSE IF IsInf(a) THEN a
    ELSE Fin(a[1] * b[2], a[2] * b[1])

\* q * sqrt(t) for a finite q and a finite t > 0 whose root is a surd: the
\* surd <<n, d, "sqrt">> with n < 0 stands for the negated square root of
\* -n/d
SurdMul(q, t) ==
    IF q[1] = 0 THEN Zero
    ELSE LET sq == Fin(q[1] * q[1] * t[1], q[2] * q[2] * t[2])
         IN  <<Sign(q[1]) * sq[1], sq[2], "sqrt">>

\* variant: a cell of the second column that is no number taken as 0
PairsZeroFilled(rows, col1, col2) ==
    LET both == [i \in 1..Len(rows) |->
                    <<ToNumeric(Get(rows[i], col1, <<>>)),
                      IF ToNumeric(Get(rows[i], col2, <<>>)) = None
                      THEN Zero
                      ELSE ToNumeric(Get(rows[i], col2, <<>>))>>]
    IN  SelectSeq(both, LAMBDA p : p[1] # None)

\* the (x, y) pairs of the rows in which both cells are numbers
Pairs(rows, col1, col2) ==
    LET both == [i \in 1..Len(rows) |->
                    <<ToNumeric(Get(rows[i], col1, <<>>)),
                      ToNumeric(Get(rows[i], col2, <<>>))>>]
    IN  SelectSeq(both, LAMBDA p : p[1] # None /\ p[2] # None)

\* The value returned for the pairs.  For finite sums the quotient
\* numerator / (sqrt(sq_x) * sqrt(sq_y)) is computed as
\* (numerator / sq_x) * sqrt(sq_x / sq_y), the same real number; otherwise
\* the product of the roots is nan if one of them is, else inf.
PearsonOf(pairs) ==
    LET n == Len(pairs)
        xs == [i \in 1..n |-> pairs[i][1]]
        ys == [i \in 1..n |-> pairs[i][2]]
        mean_x == NumDivInt(Sum(xs), n)
        mean_y == NumDivInt(Sum(ys), n)
        numerator == Sum([i \in 1..n |->
                            NumMul(NumSub(xs[i], mean_x),
                                   NumSub(ys[i], mean_y))])
        sq_x == Sum([i \in 1..n |->
                       NumMul(NumSub(xs[i], mean_x), NumSub(xs[i], mean_x))])
        sq_y == Sum([i \in 1..n |->
                       NumMul(NumSub(ys[i], mean_y), NumSub(ys[i], mean_y))])
        ratio == NumQuot(sq_x, sq_y)
    IN  IF n < 2 THEN None
        ELSE IF Sqrt(sq_x) = Zero \/ Sqrt(sq_y) = Zero THEN None
        ELSE IF ~IsFinite(sq_x) \/ ~IsFinite(sq_y)
        THEN NumQuot(numerator,
                     IF IsNaN(sq_x) \/ IsNaN(sq_y) THEN NaN ELSE PosInf)
        ELSE IF Len(Sqrt(ratio)) = 3
        THEN SurdMul(NumQuot(numerator, sq_x), ratio)
        ELSE NumMul(NumQuot(numerator, sq_x), Sqrt(ratio))

\* the correlation of two known columns over the given rows
CorrelationOn(rows, col1, col2) == PearsonOf(Pairs(rows, col1, col2))

CorrelationOf(col1, col2) ==
    IF col1 \notin Range(columns) \/ col2 \notin Range(columns)
    THEN [raised |-> "ValueError", ret |-> None]
    ELSE [raised |-> "", ret |-> CorrelationOn(data, col1, col2)]

Correlation(col1, col2) ==
    /\ Idle
    /\ call' = [op |-> "correlation", args |-> <<col1, col2>>]
    /\ raised' = CorrelationOf(col1, col2).raised
    /\ ret' = CorrelationOf(col1, col2).ret
    /\ UNCHANGED <<dataset, written>>

----------------------------------------------------------------------------
(* DataAnalyzer.value_counts.                                              *)

ValueCountsOf(column) ==
    IF column \notin Range(columns)
    THEN [raised |-> "ValueError", ret |-> None]
    ELSE [raised |-> "", ret |-> MostCommon(ColumnValues(column))]

ValueCounts(column) ==
    /\ Idle
    /\ call' = [op |-> "value_counts", args |-> <<column>>]
    /\ raised' = ValueCountsOf(column).raised
    /\ ret' = ValueCountsOf(column).ret
    /\ UNCHANGED <<dataset, written>>

----------------------------------------------------------------------------
(* DataAnalyzer.to_csv, and the loader reading the text it wrote.          *)

Quote == "\""
LineEnd == <<"\r", "\n">>

RECURSIVE Join(_, _)
Join(parts, sep) ==
    IF parts = <<>> THEN <<>>
    ELSE IF Len(parts) = 1 THEN parts[1]
    ELSE parts[1] \o sep \o Join(Tail(parts), sep)

\* the field as csv.writer writes it (minimal quoting): None as the empty
\* text; a text holding the delimiter, a quote or a line end in quotes,
\* its quotes doubled
WriteField(value) ==
    LET str == IF value = None THEN <<>> ELSE value
        special == \E i \in 1..Len(str) : str[i] \in {",", Quote, "\r", "\n"}
        doubled == Join([i \in 1..Len(str) |->
                           IF str[i] = Quote THEN <<Quote, Quote>>
                           ELSE <<str[i]>>], <<>>)
    IN  IF special THEN <<Quote>> \o doubled \o <<Quote>> ELSE str

\* writer.writerow(cells): a single empty field is written as ""
WriteRow(cells) ==
    IF Len(cells) = 1 /\ WriteField(cells[1]) = <<>>
    THEN <<Quote, Quote>> \o LineEnd
    ELSE Join([i \in 1..Len(cells) |-> WriteField(cells[i])], <<",">>)
             \o LineEnd

\* DictWriter._dict_to_list: the cells of the row in the order of the field
\* names; the caller has checked the keys
RowCells(row, fieldnames) ==
    [i \in 1..Len(fieldnames) |-> Get(row, fieldnames[i], <<>>)]

\* The text of the file after to_csv(filepath, rows), and the exception it
\* raised.  The header is written first; writerows raises ValueError at the
\* first row that has a key outside the field names, the rows before it
\* being written.
ToCsvOf(rows) ==
    LET data_to_write == IF rows # None THEN rows ELSE data
        wrong == {i \in 1..Len(data_to_write) :
                    ~(DOMAIN data_to_write[i] \subseteq Range(columns))}
        stop == IF wrong = {} THEN Len(data_to_write)
                ELSE (CHOOSE i \in wrong : \A j \in wrong : i <= j) - 1
    IN  [raised |-> IF wrong = {} THEN "" ELSE "ValueError",
         written |-> WriteRow(columns)
                        \o Join([i \in 1..stop |->
                                   WriteRow(RowCells(data_to_write[i],
                                                     columns))], <<>>)]

ToCsv(rows) ==
    /\ Idle
    /\ call' = [op |-> "to_csv", args |-> <<rows>>]
    /\ raised' = ToCsvOf(rows).raised
    /\ ret' = None
    /\ written' = ToCsvOf(rows).written
    /\ UNCHANGED dataset

SampleSize == 4096  \* characters read for the detection of the delimiter

CountChar(text, c) == Cardinality({i \in 1..Len(text) : text[i] = c})

\* the loop over [",", "\t", ";", "|"] with >= for >
RECURSIVE GuessDelimiterLatestWins(_, _, _)
GuessDelimiterLatestWins(sample, candidates, delimiter) ==
    IF candidates = <<>> THEN delimiter
    ELSE GuessDelimiterLatestWins(sample, Tail(candidates),
             IF CountChar(sample, Head(candidates))
                    >= CountChar(sample, delimiter)
             THEN Head(candidates) ELSE delimiter)

\* the loop over [",", "\t", ";", "|"], starting from ","
RECURSIVE GuessDelimiter(_, _, _)
GuessDelimiter(sample, candidates, delimiter) ==
    IF candidates = <<>> THEN delimiter
    ELSE GuessDelimiter(sample, Tail(candidates),
             IF CountChar(sample, Head(candidates))
                    > CountChar(sample, delimiter)
             THEN Head(candidates) ELSE delimiter)

DetectDelimiter(text) ==
    GuessDelimiter(SubSeq(text, 1, Min(Len(text), SampleSize)),
                   <<",", "\t", ";", "|">>, ",")

\* the lines of the text, without their line ends
RECURSIVE SplitLines(_)
SplitLines(text) ==
    IF text = <<>> THEN <<>>
    ELSE LET ends == {i \in 1..Len(text) : text[i] = "\n"}
             e == IF ends = {} THEN Len(text) + 1
                  ELSE CHOOSE i \in ends : \A j \in ends : i <= j
             line == SubSeq(text, 1, e - 1)
         IN  <<IF line # <<>> /\ line[Len(line)] = "\r"
               THEN SubSeq(line, 1, Len(line) - 1) ELSE line>>
                 \o SplitLines(SubSeq(text, e + 1, Len(text)))

\* csv.reader on one line (that holds no line end inside quotes): the fields
\* of the record.  A quote opens a quoted field at the start of a field
\* only; in a quoted field two quotes are one quote; what follows the
\* closing quote up to the delimiter is appended to the field.
RECURSIVE ScanLine(_, _, _, _, _, _)
ScanLine(line, i, delimiter, mode, field, fields) ==
    IF i > Len(line)
    THEN IF mode = "start_record" THEN fields ELSE fields \o <<field>>
    ELSE LET c == line[i] IN
         IF mode \in {"start_record", "start_field"}
         THEN IF c = Quote
              THEN ScanLine(line, i + 1, delimiter, "in_quoted", <<>>, fields)
              ELSE IF c = delimiter
              THEN ScanLine(line, i + 1, delimiter, "start_field", <<>>,
                            fields \o <<<<>>>>)
              ELSE ScanLine(line, i + 1, delimiter, "in_field", <<c>>, fields)
         ELSE IF mode = "in_field"
         THEN IF c = delimiter
              THEN ScanLine(line, i + 1, delimiter, "start_field", <<>>,
                            fields \o <<field>>)
              ELSE ScanLine(line, i + 1, delimiter, "in_field",
                            field \o <<c>>, fields)
         ELSE IF mode = "in_quoted"
         THEN IF c = Quote
              THEN ScanLine(line, i + 1, delimiter, "quote_in_quoted", field,
                            fields)
              ELSE ScanLine(line, i + 1, delimiter, "in_quoted",
                            field \o <<c>>, fields)
         ELSE IF c = Quote
              THEN ScanLine(line, i + 1, delimiter, "in_quoted",
                            field \o <<c>>, fields)
              ELSE IF c = delimiter
              THEN ScanLine(line, i + 1, delimiter, "start_field", <<>>,
                            fields \o <<field>>)
              ELSE ScanLine(line, i + 1, delimiter, "in_field",
                            field \o <<c>>, fields)

\* the records csv.reader yields for the text, with the detected delimiter
ReadText(text) ==
    LET lines == SplitLines(text)
    IN  [k \in 1..Len(lines) |->
            ScanLine(lines[k], 1, DetectDelimiter(text), "start_record",
                     <<>>, <<>>)]

MaxLineLen == 2     \* characters of a line of the texts given to the loader

\* texts of one or two lines over a name character and the four candidates
SniffAlphabet == {"a", ",", "\t", ";", "|"}
SniffLines == SeqsUpTo(SniffAlphabet, MaxLineLen)
SniffTexts ==
    (SniffLines \ {<<>>})
    \cup {h \o LineEnd \o r : h \in SniffLines \ {<<>>}, r \in SniffLines}

\* _load_data on a file of ASCII text, the text being the one held by
\* written: it succeeds at its first attempt, reading the records with the
\* delimiter detected in the sample
LoadText ==
    /\ loader.pc = "loading"
    /\ loader' = [loader EXCEPT !.pc = "ready"]
    /\ file' = ReadText(written)
    /\ columns' = LoadColumns(ReadText(written))
    /\ data' = LoadData(ReadText(written))
    /\ encoding' = loader.encodings_to_try[loader.attempt]
    /\ UNCHANGED <<bytes, written, call, raised, ret>>

----------------------------------------------------------------------------
(* DataAnalyzer.head, DataAnalyzer.tail, DataAnalyzer.get_summary.         *)

MaxCount == 3       \* largest row count given to head and tail

\* the values of n: negative, zero, below and above the number of rows
Counts == (-1)..MaxCount

\* rows[:n]
SliceTo(rows, n) ==
    IF n >= 0 THEN SubSeq(rows, 1, Min(n, Len(rows)))
    ELSE SubSeq(rows, 1, Max(Len(rows) + n, 0))

\* rows[start:], for a start that may be negative; -0 is 0
SliceFrom(rows, start) ==
    IF start >= 0 THEN SubSeq(rows, start + 1, Len(rows))
    ELSE SubSeq(rows, Max(Len(rows) + start, 0) + 1, Len(rows))

HeadOf(n) == SliceTo(data, n)

TailOf(n) == SliceFrom(data, -n)

HeadRows(n) ==
    /\ Idle
    /\ call' = [op |-> "head", args |-> <<n>>]
    /\ raised' = ""
    /\ ret' = HeadOf(n)
    /\ UNCHANGED <<dataset, written>>

\* variant: the rows before the last n removed from the dataset
TailRowsInPlace(n) ==
    /\ Idle
    /\ call' = [op |-> "tail", args |-> <<n>>]
    /\ raised' = ""
    /\ ret' = TailOf(n)
    /\ data' = TailOf(n)
    /\ UNCHANGED <<file, bytes, loader, encoding, columns, written>>

TailRows(n) ==
    /\ Idle
    /\ call' = [op |-> "tail", args |-> <<n>>]
    /\ raised' = ""
    /\ ret' = TailOf(n)
    /\ UNCHANGED <<dataset, written>>

SampleRowCount == 5

\* the DataSummary without the file name; column_stats as the statistics of
\* the columns in column order
SummaryOf ==
    [rows |-> Len(data),
     columns |-> Len(columns),
     column_names |-> columns,
     column_stats |-> [k \in 1..Len(columns) |-> ColumnStatsOf(columns[k])],
     sample_rows |-> SliceTo(data, SampleRowCount)]

GetSummary ==
    /\ Idle
    /\ call' = [op |-> "get_summary", args |-> <<>>]
    /\ raised' = ""
    /\ ret' = SummaryOf
    /\ UNCHANGED <<dataset, written>>

----------------------------------------------------------------------------
(* create_histogram.                                                       *)

HistWidth == 50     \* the default of the parameter width

\* a / b for finite a and finite b > 0
NumDiv(a, b) == Fin(a[1] * b[2], a[2] * b[1])

\* int(a) for a finite a >= 0
IntOf(a) == a[1] \div a[2]

\* the values given to create_histogram: finite floats, and the infinity
\* that _to_numeric makes of a cell "inf"
HistValues == {<<1, 1>>, <<2, 1>>, <<3, 1>>, PosInf}

\* the value lists given to create_histogram between the calls on an
\* analyzer: none, one value, equal values, values in and out of order,
\* an infinite value
HistSamples ==
    {<<>>, <<<<2, 1>>>>, <<<<1, 1>>, <<1, 1>>>>, <<<<1, 1>>, <<3, 1>>>>,
     <<<<3, 1>>, <<1, 1>>, <<2, 1>>>>, <<<<1, 1>>, PosInf>>}

BinIndex(v, min_val, bin_width, bins) ==
    Min(IntOf(NumDiv(NumSub(v, min_val), bin_width)), bins - 1)

\* The returned text, by its content: the "no data" message, the "all
\* values equal" message with the value, or one line per bin with its
\* bounds, the length of its bar and its count.
HistogramOf(values, bins) ==
    IF values = <<>> THEN [kind |-> "no_data"]
    ELSE LET min_val == PyMin(values)
             max_val == PyMax(values)
         IN  IF min_val = max_val
             THEN [kind |-> "all_equal", value |-> min_val]
             ELSE LET bin_width == NumDivInt(NumSub(max_val, min_val), bins)
                      bin_counts ==
                          [b \in 1..bins |->
                             Cardinality({i \in 1..Len(values) :
                                BinIndex(values[i], min_val, bin_width, bins)
                                    = b - 1})]
                      max_count == CHOOSE c \in Range(bin_counts) :
                                      \A d \in Range(bin_counts) : d <= c
                  IN  [kind |-> "bars",
                       lines |->
                          [b \in 1..bins |->
                             [start |-> NumAdd(min_val,
                                           NumMul(<<b - 1, 1>>, bin_width)),
                              end |-> NumAdd(min_val,
                                           NumMul(<<b, 1>>, bin_width)),
                              bar_len |-> (bin_counts[b] * HistWidth)
                                             \div max_count,
                              count |-> bin_counts[b]]]]

\* variant: the bin width computed before the equal values are recognised
HistogramRaisesDividesFirst(values, bins) ==
    IF values = <<>> THEN ""
    ELSE IF bins = 0 THEN "ZeroDivisionError"
    ELSE IF PyMin(values) = PyMax(values) THEN ""
    ELSE IF \E i \in 1..Len(values) : IsInf(values[i]) THEN "ValueError"
    ELSE ""

\* The exception create_histogram raises, "" if none.  Past the two early
\* returns, (max_val - min_val) / bins raises ZeroDivisionError for bins = 0;
\* with an infinite value the width is infinite and (v - min_val) /
\* bin_width is not a number for the infinite value (or, the minimum being
\* infinite, for the first value), of which int() raises ValueError.
HistogramRaises(values, bins) ==
    IF values = <<>> \/ PyMin(values) = PyMax(values) THEN ""
    ELSE IF bins = 0 THEN "ZeroDivisionError"
    ELSE IF \E i \in 1..Len(values) : IsInf(values[i]) THEN "ValueError"
    ELSE ""

\* variant: the bin width computed before the empty list is recognised
CreateHistogramWidthFirst(values, bins) ==
    /\ Idle
    /\ call' = [op |-> "create_histogram", args |-> <<values, bins>>]
    /\ raised' = IF bins = 0 THEN "ZeroDivisionError"
                 ELSE HistogramRaises(values, bins)
    /\ ret' = IF bins # 0 /\ HistogramRaises(values, bins) = ""
              THEN HistogramOf(values, bins) ELSE None
    /\ UNCHANGED <<dataset, written>>

CreateHistogram(values, bins) ==
    /\ Idle
    /\ call' = [op |-> "create_histogram", args |-> <<values, bins>>]
    /\ raised' = HistogramRaises(values, bins)
    /\ ret' = IF HistogramRaises(values, bins) = ""
              THEN HistogramOf(values, bins) ELSE None
    /\ UNCHANGED <<dataset, written>>

\* the analyzer built from a file of ASCII text with the default encoding
Loaded(f) ==
    /\ file = f
    /\ bytes = AsciiBytes
    /\ loader = [Loading("utf-8") EXCEPT !.pc = "ready"]
    /\ encoding = "utf-8"
    /\ columns = LoadColumns(f)
    /\ data = LoadData(f)
    /\ written = None

Init ==
    /\ \E f \in Files : Loaded(f)
    /\ call = NoCall
    /\ raised = ""
    /\ ret = None

----------------------------------------------------------------------------
(* Direct calls of the numeric parser (as main does for a histogram).      *)

MaxTextLen == 3     \* length of the texts given to the parser

ParseAlphabet == {"1", ".", ",", "-", " ", "i", "n", "f", "a", "N"}
ParseInputs == SeqsUpTo(ParseAlphabet, MaxTextLen)

ToNumericCall(value) ==
    /\ Idle
    /\ call' = [op |-> "_to_numeric", args |-> <<value>>]
    /\ raised' = ""
    /\ ret' = ToNumeric(value)
    /\ UNCHANGED <<dataset, written>>

IsNumericCall(value) ==
    /\ Idle
    /\ call' = [op |-> "_is_numeric", args |-> <<value>>]
    /\ raised' = ""
    /\ ret' = IsNumeric(value)
    /\ UNCHANGED <<dataset, written>>

----------------------------------------------------------------------------
(* Direct calls of DataAnalyzer._calculate_stats.                          *)

MaxStatLen == 4     \* length of the lists given to _calculate_stats

\* the numbers of the lists: finite floats, and the infinity that
\* _to_numeric makes of a cell "inf"
StatValues == {<<1, 1>>, <<2, 1>>, <<3, 1>>, <<4, 1>>, PosInf}

\* the list of the example of the standard deviation
StatExample ==
    <<<<2, 1>>, <<4, 1>>, <<4, 1>>, <<4, 1>>, <<5, 1>>, <<5, 1>>, <<7, 1>>,
      <<9, 1>>>>

StatInputs == SeqsUpTo(StatValues, MaxStatLen) \cup {StatExample}

\* args holds the list as the caller passed it and, second, the same list
\* as it is when the call has returned: sorted(values) builds a new list
\* and no statement assigns to values or to an element of it.
CalculateStatsCall(values) ==
    /\ Idle
    /\ call' = [op |-> "_calculate_stats", args |-> <<values, values>>]
    /\ raised' = ""
    /\ ret' = CalculateStats(values)
    /\ UNCHANGED <<dataset, written>>

----------------------------------------------------------------------------
(* The specifications.                                                     *)

\* the outcome of an analytic call on the analyzer as it is now
OutcomeOf(c) ==
    CASE c.op = "get_column_stats" ->
            IF c.args[1] \notin Range(columns)
            THEN [raised |-> "ValueError", ret |-> None]
            ELSE [raised |-> "", ret |-> ColumnStatsOf(c.args[1])]
      [] c.op = "get_summary" -> [raised |-> "", ret |-> SummaryOf]
      [] c.op = "filter" -> FilterOf(c.args[1], c.args[2], c.args[3])
      [] c.op = "group_by" ->
            IF c.args[1] \notin Range(columns)
            THEN [raised |-> "ValueError", ret |-> None]
            ELSE [raised |-> "", ret |-> GroupByOf(c.args[1], c.args[2])]
      [] c.op = "correlation" -> CorrelationOf(c.args[1], c.args[2])
      [] c.op = "value_counts" -> ValueCountsOf(c.args[1])
      [] c.op = "head" -> [raised |-> "", ret |-> HeadOf(c.args[1])]
      [] c.op = "tail" -> [raised |-> "", ret |-> TailOf(c.args[1])]
      [] c.op = "create_histogram" ->
            IF HistogramRaises(c.args[1], c.args[2]) # ""
            THEN [raised |-> HistogramRaises(c.args[1], c.args[2]),
                  ret |-> None]
            ELSE [raised |-> "", ret |-> HistogramOf(c.args[1], c.args[2])]

\* the caller makes the call it has just made once more
Repeat ==
    /\ ~Idle
    /\ call' = call
    /\ LET outcome == OutcomeOf(call)
       IN  /\ raised' = outcome.raised
           /\ ret' = outcome.ret
    /\ UNCHANGED <<dataset, written>>

\* the caller has consumed the outcome of its call
Done ==
    /\ ~Idle
    /\ call' = NoCall
    /\ raised' = ""
    /\ ret' = None
    /\ written' = None
    /\ UNCHANGED dataset

Next ==
    \/ \E column \in CallColumns : GetColumnStats(column)
    \/ \E column \in CallColumns, condition \in CallConditions,
          value \in Literals : Filter(column, condition, value)
    \/ \E column \in CallColumns, agg_column \in AggColumns :
          GroupBy(column, agg_column)
    \/ \E values \in HistSamples, bins \in 0..MaxBins :
          CreateHistogram(values, bins)
    \/ \E col1 \in CallColumns, col2 \in CallColumns : Correlation(col1, col2)
    \/ \E column \in CallColumns : ValueCounts(column)
    \/ \E n \in Counts : HeadRows(n)
    \/ \E n \in Counts : TailRows(n)
    \/ GetSummary
    \/ Repeat
    \/ Done

Spec == Init /\ [][Next]_vars

\* The numeric parser applied to every text over ParseAlphabet, on the
\* analyzer of a file with a header and no record.
InitParse ==
    /\ Loaded(<<Header>>)
    /\ call = NoCall
    /\ raised = ""
    /\ ret = None

NextParse ==
    \/ \E value \in ParseInputs : ToNumericCall(value)
    \/ \E value \in ParseInputs : IsNumericCall(value)
    \/ Done

SpecParse == InitParse /\ [][NextParse]_vars

\* create_histogram applied to every list of at most MaxValues values and
\* every bin count up to MaxBins, on the analyzer of a file with a header
\* and no record
InitHist ==
    /\ Loaded(<<Header>>)
    /\ call = NoCall
    /\ raised = ""
    /\ ret = None

NextHist ==
    \/ \E values \in SeqsUpTo(HistValues, MaxValues), bins \in 0..MaxBins :
          CreateHistogram(values, bins)
    \/ Repeat
    \/ Done

SpecHist == InitHist /\ [][NextHist]_vars

\* _calculate_stats applied to every list of at most MaxStatLen of the
\* StatValues and to the example list, on the analyzer of a file with a
\* header and no record
InitStats ==
    /\ Loaded(<<Header>>)
    /\ call = NoCall
    /\ raised = ""
    /\ ret = None

NextStats ==
    \/ \E values \in StatInputs : CalculateStatsCall(values)
    \/ Done

SpecStats == InitStats /\ [][NextStats]_vars

\* get_column_stats on the files with a column of texts
InitTop ==
    /\ \E f \in TopFiles : Loaded(f)
    /\ call = NoCall
    /\ raised = ""
    /\ ret = None

NextTop ==
    \/ \E column \in CallColumns : GetColumnStats(column)
    \/ Done

SpecTop == InitTop /\ [][NextTop]_vars

\* correlation on the files with two columns of numbers
InitPairs ==
    /\ \E f \in PairFiles : Loaded(f)
    /\ call = NoCall
    /\ raised = ""
    /\ ret = None

NextPairs ==
    \/ \E col1 \in CallColumns, col2 \in CallColumns : Correlation(col1, col2)
    \/ Done

SpecPairs == InitPairs /\ [][NextPairs]_vars

\* filter on the files with a not-a-number cell
InitNan ==
    /\ \E f \in NanFiles : Loaded(f)
    /\ call = NoCall
    /\ raised = ""
    /\ ret = None

NextNan ==
    \/ \E column \in CallColumns, condition \in CallConditions,
          value \in Literals : Filter(column, condition, value)
    \/ Done

SpecNan == InitNan /\ [][NextNan]_vars

\* the lists of rows given to to_csv: the empty list, the first two rows
RowLists == {SubSeq(data, 1, k) : k \in {0, 2} \cap 0..Len(data)}

\* to_csv on the files with commas and semicolons in cells
InitExport ==
    /\ \E f \in ExportFiles : Loaded(f)
    /\ call = NoCall
    /\ raised = ""
    /\ ret = None

NextExport ==
    \/ ToCsv(None)
    \/ \E rows \in RowLists : ToCsv(rows)
    \/ Done

SpecExport == InitExport /\ [][NextExport]_vars

\* The constructor on a file of any modelled bytes with any preferred
\* encoding: __init__ has set the fields, _load_data is at its first attempt.
InitLoad ==
    /\ bytes \in OutcomeMaps
    /\ \E preferred \in PreferredEncodings :
          /\ encoding = preferred
          /\ loader = Loading(preferred)
    /\ file = IF bytes["ascii"] = "ok" THEN <<<<ColA>>, <<<<"x">>>>>>
              ELSE <<>>
    /\ columns = <<>>
    /\ data = <<>>
    /\ written = None
    /\ call = NoCall
    /\ raised = ""
    /\ ret = None

NextLoad == LoadAttempt

SpecLoad == InitLoad /\ [][NextLoad]_vars

\* The constructor on a file of ASCII text with delimiter candidates:
\* __init__ has set the fields, _load_data is at its first attempt.
InitSniff ==
    /\ written \in SniffTexts
    /\ bytes = AsciiBytes
    /\ encoding = "utf-8"
    /\ loader = Loading("utf-8")
    /\ file = <<>>
    /\ columns = <<>>
    /\ data = <<>>
    /\ call = NoCall
    /\ raised = ""
    /\ ret = None

NextSniff == LoadText

SpecSniff == InitSniff /\ [][NextSniff]_vars

----------------------------------------------------------------------------
(* Properties.                                                             *)

StatsCall == call.op = "get_column_stats" /\ call.args[1] \in Range(columns)
FilterCall == call.op = "filter" /\ call.args[1] \in Range(columns)

\* the cells of the column of the call that _is_numeric accepts
NumericCellCount(column) ==
    Cardinality({i \in 1..Len(data) : IsNumeric(Get(data[i], column, <<>>))})

\* a column classified numeric that has a single numeric-parseable value
SingleNumericValue ==
    /\ StatsCall
    /\ NumericCellCount(call.args[1]) = 1
    /\ 5 * NumericCellCount(call.args[1]) > 4 * Len(data)

C2_UnknownOperatorFails ==
    (FilterCall /\ call.args[2] \notin Conditions) => raised # ""

\* C3: the rows returned by filter(c, "eq", v) and by filter(c, "ne", v)
\* are disjoint.
C3_EqNeDisjoint ==
    (FilterCall /\ call.args[2] = "eq" /\ raised = "") =>
        LET ne == FilterOf(call.args[1], "ne", call.args[3])
        IN  /\ ne.raised = ""
            /\ Range(ret) \cap Range(ne.ret) = {}

\* C4: in the result of group_by no group is keyed by a missing key cell
\* (None, empty or whitespace-only); the rows with a missing key cell are
\* under the sentinel key.
C4_MissingKeysUnderSentinel ==
    (call.op = "group_by" /\ raised = "") =>
        /\ \A k \in 1..Len(ret) : ~IsBlank(ret[k][1])
        /\ (\E i \in 1..Len(data) : IsBlank(Get(data[i], call.args[1], None)))
              => \E k \in 1..Len(ret) : ret[k][1] = EmptyKey

\* the row with an absent cell of the column replaced by the empty text
FillAbsent(row, column) ==
    [k \in DOMAIN row |->
        IF k = column /\ row[k] = None THEN <<>> ELSE row[k]]

\* C5: filter treats a row whose cell for the column is absent as a row
\* whose cell is the empty text: same failure or success, same rows.
C5_AbsentCellAsEmpty ==
    (FilterCall /\ \E i \in 1..Len(data) : data[i][call.args[1]] = None) =>
        LET filled == [i \in 1..Len(data) |-> FillAbsent(data[i], call.args[1])]
            other == FilterRows(filled, call.args[1], call.args[2],
                                call.args[3])
        IN  /\ raised = other.raised
            /\ raised = "" =>
                  [i \in 1..Len(ret) |-> FillAbsent(ret[i], call.args[1])]
                      = other.ret

\* C6: after loading, the key set of every row is a subset of the column
\* names.
C6_RowKeysAreColumns ==
    \A i \in 1..Len(data) : DOMAIN data[i] \subseteq Range(columns)

\* C7: filter with a known column and a recognised operator never fails,
\* whatever the literal; with eq and a literal that is not numeric it
\* returns exactly the rows whose text equals the literal.  (Stated over
\* the datasets whose rows all have a cell for the column; the rows without
\* one are the subject of C5.)
C7_FilterNeverFails ==
    (/\ FilterCall
     /\ call.args[2] \in Conditions
     /\ \A i \in 1..Len(data) : data[i][call.args[1]] # None) =>
        /\ raised = ""
        /\ (call.args[2] = "eq" /\ ~IsNumeric(call.args[3])) =>
              ret = SelectSeq(data, LAMBDA row :
                        Get(row, call.args[1], <<>>) = call.args[3])

EmptyHistogramCall ==
    call.op = "create_histogram" /\ call.args[1] = <<>>

C9_NumericIsFinite ==
    /\ call.op = "_to_numeric" => (ret # None => IsFinite(ret))
    /\ call.op = "_is_numeric" =>
          (ret => Lower(Unsigned(Strip(RemoveCommas(call.args[1]))))
                      \notin (InfWords \cup NanWords))

\* C10: get_column_stats classifies a column as numeric exactly when the
\* numeric-parseable cells are strictly more than 0.8 of all cells
\* (missing ones included), and as text otherwise.
C10_NumericIffRatioAbove ==
    StatsCall =>
        /\ raised = ""
        /\ ret.count = Len(data)
        /\ ret.dtype \in {"numeric", "string"}
        /\ ret.dtype = "numeric" <=>
              (Len(data) > 0
               /\ 5 * NumericCellCount(call.args[1]) > 4 * Len(data))

\* 4 numeric cells out of 5 (one missing): text
C10_Witness ==
    /\ StatsCall
    /\ Len(data) = 5
    /\ NumericCellCount(call.args[1]) = 4
    /\ \E i \in 1..Len(data) : data[i][call.args[1]] = None
    /\ ret.dtype = "string"

CorrelationCall ==
    /\ call.op = "correlation"
    /\ call.args[1] \in Range(columns)
    /\ call.args[2] \in Range(columns)

\* the rows in which the cells of both columns of the call are numbers
CompleteRows ==
    SelectSeq(data, LAMBDA row :
        /\ IsNumeric(Get(row, call.args[1], <<>>))
        /\ IsNumeric(Get(row, call.args[2], <<>>)))

\* the distinct numbers of a column over the complete rows
CompleteValues(column) ==
    {ToNumeric(Get(CompleteRows[i], column, <<>>)) : i \in 1..Len(CompleteRows)}

\* C11: correlation returns None whenever fewer than 2 complete pairs exist
\* or one of the columns has a single value over the complete pairs (zero
\* variance); otherwise it returns a number.  It never returns infinity or
\* nan and never raises.
C11_UndefinedOrFiniteNumber ==
    CorrelationCall =>
        /\ raised = ""
        /\ IF \/ Len(CompleteRows) < 2
              \/ Cardinality(CompleteValues(call.args[1])) <= 1
              \/ Cardinality(CompleteValues(call.args[2])) <= 1
           THEN ret = None
           ELSE ret # None /\ (Len(ret) = 3 \/ IsFinite(ret))

\* the rows without the i-th
WithoutRow(rows, i) ==
    SubSeq(rows, 1, i - 1) \o SubSeq(rows, i + 1, Len(rows))

\* C12: correlation uses exactly the rows in which both cells are
\* numeric-parseable: the result is the one computed from those rows alone,
\* and removing any other row leaves it as it is.
C12_OnlyCompleteRows ==
    CorrelationCall =>
        /\ ret = CorrelationOn(CompleteRows, call.args[1], call.args[2])
        /\ \A i \in 1..Len(data) :
              ~(/\ IsNumeric(Get(data[i], call.args[1], <<>>))
                /\ IsNumeric(Get(data[i], call.args[2], <<>>)))
              => ret = CorrelationOn(WithoutRow(data, i),
                                     call.args[1], call.args[2])

\* a correlation of -1 over two complete rows, a third row being incomplete
C12_Witness ==
    /\ CorrelationCall
    /\ Len(data) = 3
    /\ Len(CompleteRows) = 2
    /\ ret = <<-1, 1>>

\* a call that names a column the dataset does not have
UnknownColumnCall ==
    \/ /\ call.op \in {"get_column_stats", "filter", "group_by",
                       "value_counts"}
       /\ call.args[1] \notin Range(columns)
    \/ /\ call.op = "correlation"
       /\ \/ call.args[1] \notin Range(columns)
          \/ call.args[2] \notin Range(columns)

\* C13: get_column_stats, filter, group_by (key column), correlation
\* (either column) and value_counts, called with a column name that is not
\* in the dataset, fail with the unknown-column error (ValueError) whatever
\* the rows hold, return nothing, and leave the dataset as loaded.
C13_UnknownColumnFails ==
    UnknownColumnCall =>
        /\ raised = "ValueError"
        /\ ret = None
        /\ columns = LoadColumns(file)
        /\ data = LoadData(file)

\* correlation with a known first and an unknown second column, on a
\* dataset with a row whose cell is absent
C13_Witness ==
    /\ call.op = "correlation"
    /\ call.args = <<ColA, ColZ>>
    /\ \E i \in 1..Len(data) : data[i][ColB] = None
    /\ raised = "ValueError"

\* group_by with a known key column and a named column to aggregate that
\* the dataset does not have
UnknownAggCall ==
    /\ call.op = "group_by"
    /\ call.args[1] \in Range(columns)
    /\ call.args[2] # None
    /\ call.args[2] \notin Range(columns)

\* C14: group_by with an unknown agg_column does not fail and returns
\* exactly what group_by of the key column without aggregation returns:
\* for each key, in order of first occurrence, the number of its rows.
C14_UnknownAggCountsOnly ==
    UnknownAggCall =>
        /\ raised = ""
        /\ ret = GroupByOf(call.args[1], None)
        /\ \A k \in 1..Len(ret) :
              ret[k][2] = Cardinality({i \in 1..Len(data) :
                             GroupKeyOf(data[i], call.args[1]) = ret[k][1]})

\* two groups, the first of two rows
C14_Witness ==
    /\ UnknownAggCall
    /\ raised = ""
    /\ Len(ret) = 2
    /\ ret[1][2] = 2

AggCall ==
    /\ call.op = "group_by"
    /\ call.args[1] \in Range(columns)
    /\ call.args[2] \in Range(columns)

\* the numbers among the cells of agg_column in the rows of the key
AggNumbers(key) ==
    NumericValues([i \in 1..Len(GroupRows(call.args[1], key)) |->
        Get(GroupRows(call.args[1], key)[i], call.args[2], <<>>)])

\* C15: group_by with a known agg_column gives, per partition, sum, mean,
\* min and max over the numeric-parseable agg cells only (the mean being
\* the sum divided by the number of those cells) and count as the number of
\* rows of the partition; a partition without a numeric agg cell has count
\* only.
C15_AggregatesOverNumericCells ==
    AggCall =>
        /\ raised = ""
        /\ \A k \in 1..Len(ret) :
              LET nums == AggNumbers(ret[k][1])
                  agg == ret[k][2]
              IN  /\ agg.count = Len(GroupRows(call.args[1], ret[k][1]))
                  /\ IF nums = <<>>
                     THEN DOMAIN agg = {"count"}
                     ELSE /\ DOMAIN agg = {"count", "sum", "mean", "min",
                                           "max"}
                          /\ agg.sum = Sum(nums)
                          /\ NumMul(agg.mean, <<Len(nums), 1>>) = agg.sum
                          /\ agg.min \in Range(nums)
                          /\ \A v \in Range(nums) : ~NumLt(v, agg.min)
                          /\ agg.max \in Range(nums)
                          /\ \A v \in Range(nums) : ~NumLt(agg.max, v)

\* a partition of two rows, one of them with a numeric agg cell
C15_Witness ==
    /\ AggCall
    /\ raised = ""
    /\ \E k \in 1..Len(ret) :
          /\ ret[k][2].count = 2
          /\ Len(AggNumbers(ret[k][1])) = 1
          /\ ret[k][2].mean = <<2, 1>>

\* the rows at the indices I, in ascending order of index
RowsAt(rows, I) ==
    [k \in 1..Cardinality(I) |->
        rows[CHOOSE i \in I : Cardinality({j \in I : j <= i}) = k]]

\* C16: the result of filter is a subsequence of the rows of the dataset:
\* the rows at some set of positions, each once, in dataset order.
C16_ResultIsSubsequence ==
    (FilterCall /\ raised = "") =>
        \E I \in SUBSET (1..Len(data)) : ret = RowsAt(data, I)

\* both of two different rows returned
C16_Witness ==
    /\ FilterCall
    /\ raised = ""
    /\ Len(data) = 2
    /\ data[1] # data[2]
    /\ ret = data

\* the relational operator that holds exactly when the given one does not
Opposite(condition) ==
    CASE condition = "lt" -> "ge"
      [] condition = "ge" -> "lt"
      [] condition = "gt" -> "le"
      [] condition = "le" -> "gt"

\* C17: for a numeric literal v, a relational filter returns only rows
\* whose cell is numeric-parseable; the rows returned by lt v and by ge v
\* (likewise gt v and le v) are disjoint and together are exactly the rows
\* with a numeric-parseable cell.
C17_RelationalSplitsNumericRows ==
    (/\ FilterCall
     /\ call.args[2] \in {"lt", "ge", "gt", "le"}
     /\ FloatParses(call.args[3])) =>
        LET other == FilterOf(call.args[1], Opposite(call.args[2]),
                              call.args[3])
            numeric == {i \in 1..Len(data) :
                          IsNumeric(Get(data[i], call.args[1], <<>>))}
        IN  /\ raised = ""
            /\ other.raised = ""
            /\ \A k \in 1..Len(ret) :
                  IsNumeric(Get(ret[k], call.args[1], <<>>))
            /\ Range(ret) \cap Range(other.ret) = {}
            /\ Range(ret) \cup Range(other.ret) = {data[i] : i \in numeric}

\* the text of the cell of a row, an absent cell having the empty text
CellText(row, column) ==
    IF Get(row, column, <<>>) = None THEN <<>> ELSE Get(row, column, <<>>)

\* C18: after to_csv of the loaded dataset, loading the written file gives
\* the same column names in the same order and, for every row and column,
\* the same cell text; for every loadable dataset (short rows, long rows,
\* cells holding a delimiter character included).
C18_ExportLoadRoundTrip ==
    (call.op = "to_csv" /\ call.args[1] = None) =>
        /\ raised = ""
        /\ LoadColumns(ReadText(written)) = columns
        /\ Len(LoadData(ReadText(written))) = Len(data)
        /\ \A i \in 1..Len(data) : \A k \in 1..Len(columns) :
              CellText(LoadData(ReadText(written))[i], columns[k])
                  = CellText(data[i], columns[k])

\* C19: after any sequence of analytic calls, failed ones included, the
\* column list and the rows of the dataset are what loading made them, and
\* a call repeated with the same arguments has the same outcome.
C19_CallsLeaveDatasetAndRepeat ==
    /\ [](columns = LoadColumns(file) /\ data = LoadData(file))
    /\ [][(~Idle /\ call' = call) =>
              (raised' = raised /\ ret' = ret)]_vars

\* a failed call on a dataset of two rows
C19_Witness ==
    /\ call.op = "filter"
    /\ raised = "AttributeError"
    /\ Len(data) = 2
    /\ data = LoadData(file)

\* the positions in encodings_to_try of the encodings that decode the
\* sample without error
SampleDecodes ==
    {i \in 1..Len(loader.encodings_to_try) :
        /\ loader.encodings_to_try[i] \in KnownCodecs
        /\ bytes[loader.encodings_to_try[i]] # "sample"}

\* C20: the loader tries the preferred encoding, UTF-8, cp949, euc-kr and
\* Latin-1 in this order and accepts the first that decodes the sample
\* without error: it fails only if none does (the fallbacks are tried
\* whenever the preferred encoding cannot be used), and the loaded dataset
\* has the accepted encoding and the columns and rows read with it, nothing
\* of a rejected attempt.
C20_FirstDecodingEncodingAccepted ==
    /\ loader.pc = "failed" => SampleDecodes = {}
    /\ loader.pc = "ready" =>
          /\ \E i \in SampleDecodes :
                /\ \A j \in SampleDecodes : i <= j
                /\ encoding = loader.encodings_to_try[i]
          /\ columns = LoadColumns(DecodedRecords(encoding))
          /\ data = LoadData(DecodedRecords(encoding))


Candidates == <<",", "\t", ";", "|">>

SampleOf(text) == SubSeq(text, 1, Min(Len(text), SampleSize))

\* the earliest of the candidates that occur most often in the sample
MostFrequent(sample) ==
    Candidates[CHOOSE i \in 1..Len(Candidates) :
        /\ \A j \in 1..Len(Candidates) :
              CountChar(sample, Candidates[j])
                  <= CountChar(sample, Candidates[i])
        /\ \A j \in 1..(i - 1) :
              CountChar(sample, Candidates[j])
                  < CountChar(sample, Candidates[i])]

\* the records of the text when its lines are split at the delimiter
RecordsWith(text, delimiter) ==
    [k \in 1..Len(SplitLines(text)) |->
        ScanLine(SplitLines(text)[k], 1, delimiter, "start_record",
                 <<>>, <<>>)]

\* C21: the delimiter the loader detects is the candidate among comma,
\* tab, semicolon, pipe that occurs most often in the sample, the earliest
\* in that order among those of equal count, and comma when none occurs;
\* the columns and rows loaded are those read with that delimiter.
C21_DelimiterIsEarliestMostFrequent ==
    (loader.pc = "ready" /\ written # None) =>
        LET sample == SampleOf(written)
        IN  /\ DetectDelimiter(written) = MostFrequent(sample)
            /\ (\A i \in 1..Len(Candidates) :
                    CountChar(sample, Candidates[i]) = 0)
                   => DetectDelimiter(written) = ","
            /\ columns = LoadColumns(RecordsWith(written,
                                                 MostFrequent(sample)))
            /\ data = LoadData(RecordsWith(written, MostFrequent(sample)))

\* tab and semicolon occur twice each, comma less often: tab is chosen
C21_Witness ==
    /\ loader.pc = "ready"
    /\ written # None
    /\ CountChar(written, "\t") = 2
    /\ CountChar(written, ";") = 2
    /\ CountChar(written, ",") < 2
    /\ columns = <<<<>>, <<>>, <<>>>>

HistogramCall == call.op = "create_histogram"

RECURSIVE SumInts(_)
SumInts(counts) ==
    IF counts = <<>> THEN 0 ELSE Head(counts) + SumInts(Tail(counts))

\* floor((v - min) / width) clamped to bins - 1, the width being
\* (max - min) / bins
BucketOf(v, values, bins) ==
    LET width == NumDivInt(NumSub(PyMax(values), PyMin(values)), bins)
    IN  Min(IntOf(NumDiv(NumSub(v, PyMin(values)), width)), bins - 1)

\* C22: for a non-empty value list with max > min and a bin count b >= 1,
\* create_histogram returns b buckets; the count of each bucket is the
\* number of values whose index floor((value - min) / width), clamped to
\* b - 1, is that of the bucket; the counts sum to the number of values;
\* the minimum is counted in bucket 0 and the maximum in bucket b - 1.
C22_EveryValueInOneBucket ==
    (/\ HistogramCall
     /\ call.args[1] # <<>>
     /\ NumLt(PyMin(call.args[1]), PyMax(call.args[1]))
     /\ call.args[2] >= 1) =>
        LET values == call.args[1]
            bins == call.args[2]
        IN  /\ raised = ""
            /\ ret.kind = "bars"
            /\ Len(ret.lines) = bins
            /\ \A b \in 1..bins :
                  ret.lines[b].count =
                      Cardinality({i \in 1..Len(values) :
                                     BucketOf(values[i], values, bins) = b - 1})
            /\ SumInts([b \in 1..bins |-> ret.lines[b].count]) = Len(values)
            /\ BucketOf(PyMin(values), values, bins) = 0
            /\ BucketOf(PyMax(values), values, bins) = bins - 1
            /\ ret.lines[1].count >= 1
            /\ ret.lines[bins].count >= 1

AllEqualCall ==
    /\ HistogramCall
    /\ call.args[1] # <<>>
    /\ \A i, j \in 1..Len(call.args[1]) : call.args[1][i] = call.args[1][j]

\* C23: for a non-empty value list whose values are all equal,
\* create_histogram returns the "all values equal" result with that value,
\* for every bin count, the bin count 0 included; it raises nothing.
C23_EqualValuesDegenerate ==
    AllEqualCall =>
        /\ raised = ""
        /\ ret = [kind |-> "all_equal", value |-> call.args[1][1]]

C23_Witness ==
    /\ AllEqualCall
    /\ Len(call.args[1]) >= 2
    /\ call.args[2] = 0
    /\ raised = ""
    /\ ret.kind = "all_equal"


\* _calculate_stats has been called with a non-empty list
StatsListCall == call.op = "_calculate_stats" /\ call.args[1] # <<>>

\* the k-th smallest of the values, counted with repetitions
KthSmallest(values, k) ==
    CHOOSE x \in Range(values) :
        /\ Cardinality({i \in 1..Len(values) : NumLt(values[i], x)}) < k
        /\ k <= Cardinality({i \in 1..Len(values) : NumLe(values[i], x)})

\* C24: for every non-empty list of numbers the median returned by
\* _calculate_stats is the middle element in ascending order for an odd
\* length and the average of the two middle elements for an even length,
\* whatever the order of the list; the list is left in the order it was
\* passed in; the median of [1,2,3,4] is 2.5 and of [1,2,3] is 2.
C24_MedianIsMiddleOfSorted ==
    StatsListCall =>
        LET values == call.args[1]
            n == Len(values)
        IN  /\ raised = ""
            /\ ret.median =
                  IF n % 2 = 1 THEN KthSmallest(values, (n + 1) \div 2)
                  ELSE NumDivInt(NumAdd(KthSmallest(values, n \div 2),
                                        KthSmallest(values, n \div 2 + 1)),
                                 2)
            /\ call.args[2] = values
            /\ values = <<<<1, 1>>, <<2, 1>>, <<3, 1>>, <<4, 1>>>>
                   => ret.median = <<5, 2>>
            /\ values = <<<<1, 1>>, <<2, 1>>, <<3, 1>>>>
                   => ret.median = <<2, 1>>

\* a list of even length that is not in ascending order
C24_Witness ==
    /\ StatsListCall
    /\ call.args[1] = <<<<4, 1>>, <<1, 1>>, <<3, 1>>, <<2, 1>>>>
    /\ call.args[2] = call.args[1]
    /\ ret.median = <<5, 2>>

\* the sum of the squared deviations of the values from their mean
SquaredDeviations(values) ==
    LET mean == NumDivInt(Sum(values), Len(values))
    IN  Sum([i \in 1..Len(values) |->
               NumMul(NumSub(values[i], mean), NumSub(values[i], mean))])

\* C25: for every list of n >= 2 numbers the standard deviation returned
\* by _calculate_stats is the square root of the sum of the squared
\* deviations from the mean divided by n - 1; for [2,4,4,4,5,5,7,9] that
\* variance is 32/7.
C25_VarianceDividesByNMinusOne ==
    (StatsListCall /\ Len(call.args[1]) >= 2) =>
        /\ raised = ""
        /\ ret.std_dev =
              Sqrt(NumDivInt(SquaredDeviations(call.args[1]),
                             Len(call.args[1]) - 1))
        /\ call.args[1] = StatExample => ret.std_dev = Sqrt(<<32, 7>>)

C25_Witness ==
    /\ StatsListCall
    /\ call.args[1] = StatExample
    /\ ret.std_dev = <<32, 7, "sqrt">>


\* the cell is absent, empty or of white space only
MissingCell(v) == v = None \/ \A i \in 1..Len(v) : v[i] \in Whitespace

\* the cell of every row for the column of the call, "" for a row that
\* has no such key
CallCells == [i \in 1..Len(data) |-> Get(data[i], call.args[1], <<>>)]

\* the raw values of the cells that are not missing
PresentValues == {CallCells[i] : i \in {j \in 1..Len(data) :
                                           ~MissingCell(CallCells[j])}}

CellCount(v) == Cardinality({i \in 1..Len(data) : CallCells[i] = v})

FirstRowOf(v) ==
    CHOOSE i \in 1..Len(data) :
        CallCells[i] = v /\ \A j \in 1..(i - 1) : CallCells[j] # v

\* C26: for a text column, top_values lists min(5, number of distinct
\* non-missing values) pairs (value, count), the values distinct and
\* non-missing, each count the number of cells with that raw value, in
\* descending order of count and, for equal counts, in the order of the
\* first occurrence in the rows; no value left out has a higher count
\* than a listed one.
C26_TopValuesByCountThenFirstSeen ==
    (StatsCall /\ raised = "" /\ ret.dtype = "string") =>
        LET top == ret.top_values
        IN  /\ Len(top) = Min(TopN, Cardinality(PresentValues))
            /\ \A k \in 1..Len(top) :
                  /\ top[k][1] \in PresentValues
                  /\ top[k][2] = CellCount(top[k][1])
            /\ \A k, l \in 1..Len(top) :
                  k < l =>
                     \/ top[k][2] > top[l][2]
                     \/ /\ top[k][2] = top[l][2]
                        /\ FirstRowOf(top[k][1]) < FirstRowOf(top[l][1])
            /\ \A v \in PresentValues \ {top[k][1] : k \in 1..Len(top)} :
                  \A k \in 1..Len(top) : CellCount(v) <= top[k][2]

\* more than five distinct values, the most frequent not the first seen
C26_Witness ==
    /\ StatsCall
    /\ raised = ""
    /\ ret.dtype = "string"
    /\ Cardinality(PresentValues) > TopN
    /\ Len(ret.top_values) = TopN
    /\ ret.top_values[1] = <<<<"p">>, 2>>
    /\ ret.top_values[2] = <<<<"s">>, 1>>

\* C27: for every column, get_column_stats reports count = the number of
\* rows, missing = the number of rows whose cell is absent, empty or of
\* white space only, and unique = the number of distinct raw values of the
\* other cells; hence 0 <= missing <= count and unique <= count - missing.
C27_CountMissingUnique ==
    (StatsCall /\ raised = "") =>
        /\ ret.count = Len(data)
        /\ ret.missing =
              Cardinality({i \in 1..Len(data) : MissingCell(CallCells[i])})
        /\ ret.unique = Cardinality(PresentValues)
        /\ 0 <= ret.missing
        /\ ret.missing <= ret.count
        /\ ret.unique <= ret.count - ret.missing

\* an absent cell, a cell of white space and two equal texts
C27_Witness ==
    /\ StatsCall
    /\ raised = ""
    /\ \E i, j \in 1..Len(data) :
          /\ data[i][call.args[1]] = None
          /\ data[j][call.args[1]] = <<" ">>
    /\ ret.missing = 2
    /\ ret.count = 2
    /\ ret.unique = 0

\* the six numeric fields of the ColumnStats returned
NumericFields ==
    <<ret.min_val, ret.max_val, ret.mean, ret.median, ret.std_dev,
      ret.sum_val>>

\* C28: in every ColumnStats returned, dtype is numeric if and only if
\* the six numeric fields are all set; a numeric column has an empty
\* top_values and a text column has the six fields unset, a dataset of no
\* row included.
C28_NumericIffSixFieldsSet ==
    (StatsCall /\ raised = "") =>
        /\ ret.dtype \in {"numeric", "string"}
        /\ ret.dtype = "numeric" <=>
              \A k \in 1..6 : NumericFields[k] # None
        /\ ret.dtype = "numeric" => ret.top_values = <<>>
        /\ ret.dtype = "string" =>
              \A k \in 1..6 : NumericFields[k] = None
        /\ Len(data) = 0 => ret.dtype = "string" /\ ret.top_values = <<>>

\* a numeric column of a single value: its standard deviation is set too
C28_Witness ==
    /\ StatsCall
    /\ raised = ""
    /\ ret.dtype = "numeric"
    /\ Len(data) = 1
    /\ ret.std_dev = Zero
    /\ ret.min_val # None
    /\ ret.top_values = <<>>

\* group_by with a known key column has returned
GroupCall ==
    /\ call.op = "group_by"
    /\ call.args[1] \in Range(columns)
    /\ raised = ""

\* the count of the k-th group returned: the value itself without
\* aggregation, the count field with it
GroupCount(k) ==
    IF call.args[2] # None /\ call.args[2] \in Range(columns)
    THEN ret[k][2].count
    ELSE ret[k][2]

\* C29: group_by partitions the rows: the keys returned are distinct,
\* the key of every row is one of them, the count of a group is the
\* number of rows with its key, the counts sum to the number of rows and
\* no group has count 0.
C29_GroupsPartitionRows ==
    GroupCall =>
        /\ \A k, l \in 1..Len(ret) : ret[k][1] = ret[l][1] => k = l
        /\ \A i \in 1..Len(data) :
              Cardinality({k \in 1..Len(ret) :
                  ret[k][1] = GroupKeyOf(data[i], call.args[1])}) = 1
        /\ \A k \in 1..Len(ret) :
              /\ GroupCount(k) =
                    Cardinality({i \in 1..Len(data) :
                        GroupKeyOf(data[i], call.args[1]) = ret[k][1]})
              /\ GroupCount(k) >= 1
        /\ SumInts([k \in 1..Len(ret) |-> GroupCount(k)]) = Len(data)

\* three groups with aggregation, one of them of the rows without a cell
C29_Witness ==
    /\ GroupCall
    /\ call.args[1] = ColB
    /\ call.args[2] = ColB
    /\ Len(ret) = 3
    /\ \E k \in 1..3 : ret[k][1] = None /\ GroupCount(k) = 2
    /\ Len(data) = 5

\* C30: for every n >= 0, head(n) returns the first min(n, number of
\* rows) rows and tail(n) the last min(n, number of rows) rows, in source
\* order; tail(0) returns no rows.
C30_HeadTailTakeMinRows ==
    (call.op \in {"head", "tail"} /\ call.args[1] >= 0) =>
        LET m == Min(call.args[1], Len(data))
        IN  /\ raised = ""
            /\ call.op = "head" => ret = SubSeq(data, 1, m)
            /\ call.op = "tail" =>
                  ret = SubSeq(data, Len(data) - m + 1, Len(data))

====
